---- MODULE Spec2Model ----
(***************************************************************************)
(* Conversation orchestration of the Sight2Sense chat client.              *)
(*                                                                         *)
(* src/App.tsx holds the conversation store (the React state chatState,    *)
(* inputText, selectedImage and the handlers handleSendMessage,            *)
(* handleImageUpload, resetChat); src/services/geminiService.ts holds the  *)
(* Insight Client (generateElectronicsInsight).                            *)
(*                                                                         *)
(* A text is a sequence of tokens: the token " " is one whitespace         *)
(* character, every other token is a run of text that neither starts nor   *)
(* ends with whitespace.  The empty sequence is the empty string, which    *)
(* JavaScript treats like an absent (undefined) argument in || and ?:.     *)
(*                                                                         *)
(* Handlers attached to DOM elements run from the latest render, so they   *)
(* read the current state.  The FileReader callback of handleImageUpload   *)
(* keeps the handleSendMessage of the render in which the file was chosen, *)
(* so it reads the chatState / selectedImage of that render (its view).    *)
(* Every setChatState is a functional update and applies to the current    *)
(* state.                                                                  *)
(***************************************************************************)
EXTENDS Integers, Sequences, FiniteSets, TLC

VARIABLES
    chatState,      \* App.tsx:33  [messages, isLoading, error]
    inputText,      \* App.tsx:38
    selectedImage,  \* App.tsx:39
    apiKey,         \* geminiService.ts:13  TRUE iff VITE_GEMINI_API_KEY is set
    now,            \* the clock read by Date.now()
    readers,        \* FileReaders started by handleImageUpload, not yet ended
    inflight,       \* calls of generateElectronicsInsight that have not settled
    submitted,      \* how many submissions handleSendMessage has accepted so far
    last            \* history variable: the last step of handleSendMessage or resetChat

vars == <<chatState, inputText, selectedImage, apiKey, now, readers, inflight, submitted, last>>

----------------------------------------------------------------------------
(* Bounds of the model *)

MaxSubmits == 2
MaxReaders == 1
MaxClock == 1

----------------------------------------------------------------------------
(* Values *)

Null == "<null>"

WS == " "

AnalyzePlaceholder == <<"Analyze this image.">>

\* (in the source the text starts with a camera emoji)
UploadDisplayText == <<"Image uploaded. Automated analysis in progress...">>

UploadPrompt ==
    <<"Initiate full Safety Check and Component Identification. Be concise for mobile.">>

NoResponseText == <<"No response generated.">>

EngineFailure == "Engine failure."

MissingKeyMessage == "VITE_GEMINI_API_KEY is missing"

\* Two of the seven starter questions (the user clicks one of the three shown).
STARTER_QUESTIONS ==
    { <<"My circuit isn't powering on-where should I start probing with my multimeter to find the fault?">>,
      <<"What common protection components are found at a power input, and how do I test them?">> }

\* What the user can have in the textarea: nothing, blanks only, a question
\* with a trailing blank.
InputTexts == { <<>>, <<WS>>, <<"q", WS>> }

\* What FileReader.result can be at loadend: a data URL, or null on error.
Images == { "data:image/jpeg;base64,AAAA" }

\* response.text of the service, when it generated text.
ResponseTexts == { <<"Check fuse F1.">> }

\* error.message of a failed generateContent call: absent/empty, or a message.
ErrorMessages == { "", "rate limited" }

----------------------------------------------------------------------------
(* Pure helpers *)

RECURSIVE trimStart(_)
trimStart(s) ==
    IF s = <<>> THEN <<>>
    ELSE IF Head(s) = WS THEN trimStart(Tail(s)) ELSE s

RECURSIVE trimEnd(_)
trimEnd(s) ==
    IF s = <<>> THEN <<>>
    ELSE IF s[Len(s)] = WS THEN trimEnd(SubSeq(s, 1, Len(s) - 1)) ELSE s

\* String.prototype.trim
trim(s) == trimEnd(trimStart(s))

\* a || b on texts: the empty string is falsy
OrText(a, b) == IF a # <<>> THEN a ELSE b

\* a || b on images and messages held as strings: null, undefined and "" are falsy
OrStr(a, b) == IF a # Null /\ a # "" THEN a ELSE b

emptyState == [messages |-> <<>>, isLoading |-> FALSE, error |-> Null]


----------------------------------------------------------------------------
(* Insight Client, src/services/geminiService.ts *)

\* The call generateElectronicsInsight(prompt, history, skillLevel, currentImage)
\* as it stands when the caller starts to await it.  With the key missing it
\* has thrown before any request was built (network = FALSE); otherwise one
\* generateContent request is outstanding (network = TRUE).  skillLevel only
\* selects the wording of the system instruction and is left out.
generateElectronicsInsightNoKeyCheck(prompt, history, currentImage) ==
    [prompt |-> prompt, history |-> history, image |-> currentImage, network |-> TRUE]

generateElectronicsInsight(prompt, history, currentImage) ==
    [prompt |-> prompt, history |-> history, image |-> currentImage, network |-> apiKey]

\* What the settled call returns: response.text || "No response generated."
ReturnedText(responseText) == OrText(responseText, NoResponseText)

\* The message of the Error the call throws: the key check's, or the catch
\* block's error.message || "Engine failure."
ThrownMessage(network, errorMessage) ==
    IF network THEN OrStr(errorMessage, EngineFailure) ELSE MissingKeyMessage

----------------------------------------------------------------------------
(* Conversation store, src/App.tsx *)

userMessage(promptToUse, customImage, imageToUse) ==
    [ id    |-> now,
      role  |-> "user",
      text  |-> OrText(promptToUse, AnalyzePlaceholder),
      image |-> IF customImage # Null THEN imageToUse ELSE Null ]

displayMessage(customPrompt, um) ==
    IF customPrompt # <<>> THEN [um EXCEPT !.text = UploadDisplayText] ELSE um

assistantMessage(aiResponse) ==
    [ id |-> now + 1, role |-> "model", text |-> aiResponse, image |-> Null ]

\* The three functional updates of handleSendMessage and the state resetChat sets.
SubmitUpdate(prev, dm) ==
    [prev EXCEPT !.messages = Append(@, dm), !.isLoading = TRUE, !.error = Null]

ResolveUpdateDropsTurn(prev, am) ==
    [prev EXCEPT !.isLoading = FALSE]

ResolveUpdate(prev, am) ==
    [prev EXCEPT !.messages = Append(@, am), !.isLoading = FALSE]

FailUpdateRollsBack(prev, message) ==
    [prev EXCEPT !.messages = SubSeq(@, 1, Len(@) - 1),
                 !.isLoading = FALSE, !.error = OrStr(message, EngineFailure)]

FailUpdate(prev, message) ==
    [prev EXCEPT !.isLoading = FALSE, !.error = OrStr(message, EngineFailure)]

resetStateKeepsError == [emptyState EXCEPT !.error = chatState.error]

resetState == emptyState

\* The early return of handleSendMessage, evaluated on the render it was made in.
Rejected(promptToUse, imageToUse, view) ==
    (trim(promptToUse) = <<>> /\ imageToUse = Null) \/ view.isLoading

\* What handleSendMessage reads of the render it was made in.
CurrentView ==
    [ messages |-> chatState.messages, isLoading |-> chatState.isLoading,
      inputText |-> inputText, selectedImage |-> selectedImage ]

\* An entry of inflight: a call that has not settled.  Beside whether a
\* request went out, it records for the properties the position of the call's
\* user turn in the turn sequence (0 once resetChat has emptied the
\* conversation the turn was appended to) and whether the round trip has run
\* alone so far (no other call outstanding, no reset).
Entry(call) ==
    [ network |-> call.network, turn |-> Len(chatState.messages) + 1,
      alone |-> inflight = <<>> ]

NoEntry == [network |-> FALSE, turn |-> 0, alone |-> FALSE]

NoCall == [prompt |-> <<>>, history |-> <<>>, image |-> Null, network |-> FALSE]

MarkOverlapped(q) == [i \in 1..Len(q) |-> [q[i] EXCEPT !.alone = FALSE]]

MarkStale(q) == [i \in 1..Len(q) |-> [q[i] EXCEPT !.turn = 0, !.alone = FALSE]]

Remove(q, i) == SubSeq(q, 1, i - 1) \o SubSeq(q, i + 1, Len(q))

\* The record kept in last: the step taken (submit, reject, resolve, fail,
\* reset), chatState and selectedImage before it, for a submit or reject the
\* prompt and image it used and the call it made, for a completion the entry
\* settled and the raw message of the failure.
Step(op, req, call, prompt, image, err) ==
    [ op |-> op, pre |-> chatState, preImage |-> selectedImage,
      req |-> req, call |-> call, prompt |-> prompt, image |-> image, err |-> err ]

\* A call that threw at the key check is settled by the next microtask, before
\* any other event is handled.
Urgent == \E i \in 1..Len(inflight) : ~inflight[i].network

CanGrow == submitted < MaxSubmits

\* handleSendMessage(customPrompt, customImage) up to its await, run from the
\* render `view`.  It sets chatState, inputText, inflight (and submitted, last).
handleSendMessage(customPrompt, customImage, view) ==
    LET promptToUse == OrText(customPrompt, view.inputText)
        imageToUse  == OrStr(customImage, view.selectedImage)
        um   == userMessage(promptToUse, customImage, imageToUse)
        dm   == displayMessage(customPrompt, um)
        call == generateElectronicsInsight(um.text, view.messages, imageToUse)
    IN  IF Rejected(promptToUse, imageToUse, view)
        THEN /\ UNCHANGED <<chatState, inputText, inflight, submitted>>
             /\ last' = Step("reject", NoEntry, NoCall, promptToUse, imageToUse, "")
        ELSE /\ chatState' = SubmitUpdate(chatState, dm)
             /\ inputText' = <<>>
             /\ inflight' = Append(MarkOverlapped(inflight), Entry(call))
             /\ submitted' = submitted + 1
             /\ last' = Step("submit", Entry(call), call, promptToUse, imageToUse, "")

----------------------------------------------------------------------------
(* Events *)

\* textarea onChange
setInputText(text) ==
    /\ ~Urgent
    /\ inputText' = text
    /\ UNCHANGED <<chatState, selectedImage, apiKey, now, readers, inflight, submitted, last>>

\* Enter in the textarea (the Send button is the same call, enabled only when
\* the call would not return early)
sendTyped ==
    /\ ~Urgent /\ CanGrow
    /\ handleSendMessage(<<>>, Null, CurrentView)
    /\ UNCHANGED <<selectedImage, apiKey, now, readers>>

\* A starter question button; they are rendered while the conversation is empty.
sendStarter(q) ==
    /\ ~Urgent /\ CanGrow
    /\ chatState.messages = <<>>
    /\ handleSendMessage(q, Null, CurrentView)
    /\ UNCHANGED <<selectedImage, apiKey, now, readers>>

\* handleImageUpload with a file chosen: a FileReader starts, its onloadend
\* closing over the handleSendMessage of this render.  With a prompt given,
\* that handleSendMessage never reads inputText.
handleImageUpload ==
    /\ ~Urgent
    /\ Cardinality(readers) < MaxReaders
    /\ readers' = readers \cup {[CurrentView EXCEPT !.inputText = <<>>]}
    /\ UNCHANGED <<chatState, inputText, selectedImage, apiKey, now, inflight, submitted, last>>

\* reader.onloadend, of the FileReader started in the render `view`.
onloadend(view, base64) ==
    /\ ~Urgent /\ CanGrow
    /\ view \in readers
    /\ readers' = readers \ {view}
    /\ selectedImage' = base64
    /\ handleSendMessage(UploadPrompt, base64, view)
    /\ UNCHANGED <<apiKey, now>>

\* The continuation of handleSendMessage after a successful await.
resolveInsight(i, responseText) ==
    /\ ~Urgent
    /\ i \in 1..Len(inflight)
    /\ chatState' = ResolveUpdate(chatState, assistantMessage(ReturnedText(responseText)))
    /\ inflight' = Remove(inflight, i)
    /\ last' = Step("resolve", inflight[i], NoCall, <<>>, Null, "")
    /\ UNCHANGED <<inputText, selectedImage, apiKey, now, readers, submitted>>

\* The catch block of handleSendMessage, the request having failed.
failInsight(i, errorMessage) ==
    /\ ~Urgent
    /\ i \in 1..Len(inflight)
    /\ chatState' = FailUpdate(chatState, ThrownMessage(inflight[i].network, errorMessage))
    /\ inflight' = Remove(inflight, i)
    /\ last' = Step("fail", inflight[i], NoCall, <<>>, Null, errorMessage)
    /\ UNCHANGED <<inputText, selectedImage, apiKey, now, readers, submitted>>

\* The catch block of handleSendMessage, the key check having thrown.
failMissingKey(i) ==
    /\ i \in 1..Len(inflight)
    /\ ~inflight[i].network
    /\ chatState' = FailUpdate(chatState, ThrownMessage(inflight[i].network, ""))
    /\ inflight' = Remove(inflight, i)
    /\ last' = Step("fail", inflight[i], NoCall, <<>>, Null, MissingKeyMessage)
    /\ UNCHANGED <<inputText, selectedImage, apiKey, now, readers, submitted>>

resetChat ==
    /\ ~Urgent
    /\ chatState' = resetState
    /\ selectedImage' = Null
    /\ inflight' = MarkStale(inflight)
    /\ last' = Step("reset", NoEntry, NoCall, <<>>, Null, "")
    /\ UNCHANGED <<inputText, apiKey, now, readers, submitted>>

\* Time passes.
tick ==
    /\ ~Urgent
    /\ now < MaxClock
    /\ now' = now + 1
    /\ UNCHANGED <<chatState, inputText, selectedImage, apiKey, readers, inflight, submitted, last>>

Init ==
    /\ chatState = emptyState
    /\ inputText = <<>>
    /\ selectedImage = Null
    /\ apiKey \in BOOLEAN
    /\ now = 0
    /\ readers = {}
    /\ inflight = <<>>
    /\ submitted = 0
    /\ last = [ op |-> "init", pre |-> emptyState, preImage |-> Null, req |-> NoEntry,
                call |-> NoCall, prompt |-> <<>>, image |-> Null, err |-> "" ]

Next ==
    \/ \E text \in InputTexts : setInputText(text)
    \/ sendTyped
    \/ \E q \in STARTER_QUESTIONS : sendStarter(q)
    \/ handleImageUpload
    \/ \E view \in readers : \E base64 \in Images \cup {Null} : onloadend(view, base64)
    \/ \E i \in 1..MaxSubmits : \E t \in ResponseTexts : resolveInsight(i, t)
    \/ \E i \in 1..MaxSubmits : \E e \in ErrorMessages : failInsight(i, e)
    \/ \E i \in 1..MaxSubmits : failMissingKey(i)
    \/ resetChat

\* The store reads the clock for the ids of the turns only, and nothing it
\* does depends on an id: Spec lets the clock stand, SpecClock lets it advance.
Spec == Init /\ [][Next]_vars

NextClock == Next \/ tick

SpecClock == Init /\ [][NextClock]_vars

----------------------------------------------------------------------------
(* Properties *)

messages == chatState.messages

Settled == last.op \in {"resolve", "fail"}

\* The round trip of last.req ran alone: no other call was outstanding during
\* it and resetChat did not run during it.
Awaited == last.req.alone

\* The length of the turn sequence when the submit of last.req was accepted.
TurnsBefore == last.req.turn - 1

BothEmpty(prompt, image) == trim(prompt) = <<>> /\ image = Null

\* C1: at most one call of generateElectronicsInsight is outstanding, whatever
\* the interleaving of submissions, resets and completions.
AtMostOneOutstanding == Len(inflight) <= 1

\* C2: the completion of a request that was outstanding when resetChat ran is
\* ignored: it leaves the turns, the pending flag and the error as they were.
StaleCompletionIgnored ==
    (Settled /\ last.req.turn = 0) => chatState = last.pre

\* C3: a round trip that ran alone, without a reset, grows the turn sequence by
\* 2 when it succeeds (the user turn, then a model turn) and by 1 when it fails
\* (the user turn only, and the error is set).
RoundTripGrowth ==
    /\ (last.op = "resolve" /\ Awaited) =>
          /\ Len(messages) = TurnsBefore + 2
          /\ messages[TurnsBefore + 1].role = "user"
          /\ messages[TurnsBefore + 2].role = "model"
          /\ SubSeq(messages, 1, TurnsBefore) = SubSeq(last.pre.messages, 1, TurnsBefore)
    /\ (last.op = "fail" /\ Awaited) =>
          /\ Len(messages) = TurnsBefore + 1
          /\ messages[TurnsBefore + 1].role = "user"
          /\ SubSeq(messages, 1, TurnsBefore) = SubSeq(last.pre.messages, 1, TurnsBefore)
          /\ chatState.error # Null

\* A failed round trip that followed a successful one, both awaited.
RoundTripGrowthWitness ==
    last.op = "fail" /\ Awaited /\ TurnsBefore = 2 /\ Len(messages) = 3

\* C4: after resetChat the turn sequence is empty, nothing is pending, no
\* error is shown and no image is staged, whatever the state before.
ResetYieldsEmpty ==
    last.op = "reset" =>
        /\ messages = <<>>
        /\ chatState.isLoading = FALSE
        /\ chatState.error = Null
        /\ selectedImage = Null

\* resetChat ran while a request was pending, with turns and a staged image.
ResetYieldsEmptyWitness ==
    /\ last.op = "reset"
    /\ last.pre.isLoading /\ last.pre.messages # <<>> /\ last.preImage # Null
    /\ inflight # <<>>

\* C5: a submit made with nothing to send, or while a request is pending,
\* changes neither the turns, the pending flag nor the error and starts no call.
RejectedSubmitIsNoOp ==
    (/\ last.op \in {"submit", "reject"}
     /\ BothEmpty(last.prompt, last.image) \/ last.pre.isLoading)
    => (chatState = last.pre /\ last.op = "reject")

ModelTurnPrecededByUser ==
    \A i \in 1..Len(messages) :
        messages[i].role = "model" => \E j \in 1..(i - 1) : messages[j].role = "user"

\* C8: the user turn an accepted submit appends carries the submitted text,
\* or "Analyze this image." when there is no text, on every submission path.
UserTurnCarriesText ==
    last.op = "submit" =>
        /\ messages[Len(messages)].role = "user"
        /\ messages[Len(messages)].text =
              IF last.prompt # <<>> THEN last.prompt ELSE AnalyzePlaceholder

\* C9: right after an accepted submit and right after a successful completion
\* the error is null.
ErrorClearedOnStartOrSuccess ==
    last.op \in {"submit", "resolve"} => chatState.error = Null

\* C10: with the key missing no request is ever sent, the call of a submit
\* fails before anything else happens, and its failure leaves nothing pending
\* and the configuration error set.
MissingKeyFailsFast ==
    /\ ~apiKey => \A i \in 1..Len(inflight) : ~inflight[i].network
    /\ (~apiKey /\ last.op = "submit") => (Urgent /\ inflight = <<last.req>>)
    /\ Urgent => (last.op = "submit" /\ inflight = <<last.req>>)
    /\ (~apiKey /\ last.op = "fail") =>
          /\ chatState.isLoading = FALSE
          /\ chatState.error = "VITE_GEMINI_API_KEY is missing"

\* A submit failed on the missing key.
MissingKeyFailsFastWitness ==
    /\ ~apiKey /\ last.op = "fail" /\ last.pre.isLoading
    /\ chatState.error = MissingKeyMessage /\ inflight = <<>>

\* C11: the history an accepted submit passes to generateElectronicsInsight is
\* the turn sequence as it stood just before the new user turn was appended.
HistoryIsTurnsBefore ==
    last.op = "submit" => last.call.history = last.pre.messages

\* C12: no two turns of the sequence share an id, and the ids strictly
\* increase along the sequence, whatever non-decreasing values the clock takes.
TurnIdsIncrease ==
    \A i, j \in 1..Len(messages) : i < j => messages[i].id < messages[j].id

====
